---- MODULE Spec2Model ----
(***************************************************************************)
(* Nightona: one persistent Daytona sandbox per tenant, its Durable Object *)
(* record (SandboxManager), the resolver getOrCreateSandbox and the        *)
(* streaming bridge that relays the remote command's log stream.           *)
(*                                                                         *)
(* Spec       the worker's request handlers (/api/initialize, /api/status, *)
(*            /api/reset-session) running getOrCreateSandbox against the   *)
(*            provider and the Durable Object record.                      *)
(* SpecBridge the invocations of the streaming bridge (handleClaudeRequest *)
(*            on the WebSocket, /api/run-code as server-sent events): the  *)
(*            log callback, the timeout race and the finalization.         *)
(* SpecStore  the SandboxManager's operations called in any order on the   *)
(*            records the program leaves in the storage.                   *)
(* SpecChunks the log callback alone, on every output of a few lines cut   *)
(*            into chunks at every place.                                  *)
(* SpecHandlers the same handlers as Spec, started on every record the     *)
(*            program leaves in the storage (with a conversation).         *)
(* SpecRace   two /api/initialize requests in flight at once.              *)
(* SpecAtomic the SandboxManager's read-modify-write operations called by  *)
(*            two callers at once, each split into its get and its put.    *)
(* SpecLive   the race of the log subscription against the timer, with    *)
(*            fairness, the caller possibly gone when the timer fires.     *)
(* SpecStreamReset the same race with /api/reset-session clearing the      *)
(*            conversation in between.                                     *)
(***************************************************************************)
EXTENDS Integers, Sequences, FiniteSets, TLC

\* Bound: how many sandboxes the provider hands out before create can only fail.
MaxSandboxes == 2

\* sandboxId: string | null and devServerUrl: string | null; ids are 1..MaxSandboxes.
NoId == 0
NoUrl == 0

\* The worker isolates serving requests concurrently.
Procs == {1, 2}

\* Sandbox states the provider reports, in the casings it may use.
SandboxStatus == {"started", "STOPPED", "Archived", "error"}

VARIABLES
  storage,    \* the Durable Object's storage key 'sandboxState'
  now,        \* Date.now()
  nextId,     \* provider: id the next daytona.create returns
  procs,      \* the requests in flight at once (fixed by the initial state)
  req,        \* per worker process: the request being served
  bridge      \* the streaming bridge's invocation (SpecBridge)

vars == <<storage, now, nextId, procs, req, bridge>>

-----------------------------------------------------------------------------
(* SandboxManager: the record and its operations *)

\* What storage.get returns when the key was never put.
NoRecord ==
  [present |-> FALSE, sandboxId |-> NoId, isInitialized |-> FALSE, devServerUrl |-> NoUrl,
   createdAt |-> 0, lastAccessedAt |-> 0, messages |-> <<>>]

DefaultState(t) ==
  [present |-> TRUE, sandboxId |-> NoId, isInitialized |-> FALSE, devServerUrl |-> NoUrl,
   createdAt |-> t, lastAccessedAt |-> t, messages |-> <<>>]

\* getSandboxState: the value returned ...
getSandboxState_ret(s, t) ==
  IF ~s.present THEN DefaultState(t) ELSE [s EXCEPT !.lastAccessedAt = t]

\* Mutant: a read stamps createdAt as well.
getSandboxState_put_stampsCreated(s, t) ==
  IF ~s.present THEN s ELSE [s EXCEPT !.lastAccessedAt = t, !.createdAt = t]

\* ... and the storage afterwards (the default record is returned, not stored).
getSandboxState_put(s, t) ==
  IF ~s.present THEN s ELSE [s EXCEPT !.lastAccessedAt = t]

\* Mutant: an id already in the record is kept.
setSandboxState_keepsId(s, id, t) ==
  LET existingState == getSandboxState_ret(s, t) IN
  [existingState EXCEPT
     !.sandboxId = IF existingState.sandboxId # NoId THEN existingState.sandboxId ELSE id,
     !.isInitialized = TRUE]

\* Mutant: a bind writes a fresh record around the id.
setSandboxState_fresh(s, id, t) ==
  [present |-> TRUE, sandboxId |-> id, isInitialized |-> TRUE, devServerUrl |-> NoUrl,
   createdAt |-> t, lastAccessedAt |-> t, messages |-> <<>>]

setSandboxState(s, id, t) ==
  LET existingState == getSandboxState_ret(s, t) IN
  [present |-> TRUE,
   sandboxId |-> id,
   isInitialized |-> TRUE,
   devServerUrl |-> existingState.devServerUrl,
   createdAt |-> IF existingState.createdAt # 0 THEN existingState.createdAt ELSE t,
   lastAccessedAt |-> t,
   messages |-> existingState.messages]

\* Mutant: a reset keeps the conversation.
resetSandboxState_keepsMessages(s, t) ==
  [DefaultState(t) EXCEPT !.messages = getSandboxState_ret(s, t).messages]

\* Mutant: a reset forgets the sandbox but leaves the record marked bound.
resetSandboxState_staysBound(s, t) == [DefaultState(t) EXCEPT !.isInitialized = TRUE]

resetSandboxState(s, t) == DefaultState(t)

setDevServerUrl(s, url, t) ==
  [getSandboxState_ret(s, t) EXCEPT !.devServerUrl = url, !.lastAccessedAt = t]

\* Mutant: the message is put in front of the conversation.
addMessage_prepend(s, m, t) ==
  LET state == getSandboxState_ret(s, t) IN
  [state EXCEPT !.messages = <<m>> \o state.messages, !.lastAccessedAt = t]

addMessage(s, m, t) ==
  LET state == getSandboxState_ret(s, t) IN
  [state EXCEPT !.messages = Append(state.messages, m), !.lastAccessedAt = t]

\* Mutant: clearing the conversation also drops the preview address.
clearMessages_dropsUrl(s, t) ==
  [getSandboxState_ret(s, t) EXCEPT !.messages = <<>>, !.devServerUrl = NoUrl, !.lastAccessedAt = t]

clearMessages(s, t) ==
  [getSandboxState_ret(s, t) EXCEPT !.messages = <<>>, !.lastAccessedAt = t]

-----------------------------------------------------------------------------
(* getOrCreateSandbox and ensureDevServerRunning *)

\* sandbox.state?.toUpperCase()
ToUpperCase(s) ==
  CASE s = "started" -> "STARTED"
    [] s = "Archived" -> "ARCHIVED"
    [] s = "error" -> "ERROR"
    [] OTHER -> s

\* One remote call a request issued, with how it ended.
Op(name, out) == <<name, out>>

\* Mutant: a process found online is restarted all the same.
ensureDevServerRunning_restartsOnline ==
  { [cmds |-> <<Op("pm2 describe", "exit0"), Op("pm2 jlist", "online"), Op("pm2 restart", "ok")>>,
     throws |-> FALSE],
    [cmds |-> <<Op("pm2 describe", "exit1"), Op("pm2 start", "ok")>>, throws |-> FALSE] }

\* ensureDevServerRunning: every run of the procedure, as the commands it issues
\* (with their outcomes) and whether it returns or throws.
ensureDevServerRunning ==
  LET start == { [cmds |-> <<Op("pm2 start", "ok")>>, throws |-> FALSE],
                 [cmds |-> <<Op("pm2 start", "raise")>>, throws |-> TRUE] }
      \* the check failed or found nothing: start it
      Fresh(prefix) == { [cmds |-> prefix \o r.cmds, throws |-> r.throws] : r \in start }
      describe0 == <<Op("pm2 describe", "exit0")>>
  IN   Fresh(<<Op("pm2 describe", "raise")>>)
    \cup Fresh(<<Op("pm2 describe", "exit1")>>)
    \cup Fresh(describe0 \o <<Op("pm2 jlist", "raise")>>)
    \cup Fresh(describe0 \o <<Op("pm2 jlist", "unparsable")>>)
    \cup { [cmds |-> describe0 \o <<Op("pm2 jlist", "online")>>, throws |-> FALSE] }
    \cup { [cmds |-> describe0 \o <<Op("pm2 jlist", st), Op("pm2 restart", "ok")>>,
            throws |-> FALSE] : st \in {"stopped", "missing"} }
    \cup UNION { Fresh(describe0 \o <<Op("pm2 jlist", st), Op("pm2 restart", "raise")>>)
                 : st \in {"stopped", "missing"} }

\* The bridge before any message: no invocation of handleClaudeRequest yet.
NoInvocation ==
  [variant |-> "ws", pc |-> "idle", sandboxState |-> NoRecord, continueFlag |-> FALSE,
   out |-> <<>>, received |-> <<>>, joined |-> FALSE,
   buffer |-> <<>>, assistantContent |-> <<>>, aiContent |-> <<>>,
   sub |-> "none", timer |-> "none", race |-> "none", atRace |-> <<>>,
   events |-> <<>>, closed |-> FALSE, resp |-> "none"]

Idle ==
  [kind |-> "idle", pc |-> "idle", st |-> NoRecord, sb |-> NoId,
   log |-> <<>>, ret |-> "none", resp |-> "none"]

Init ==
  /\ storage = NoRecord
  /\ now = 1
  /\ nextId = 1
  /\ procs = {1}
  /\ req = [p \in Procs |-> Idle]
  /\ bridge = NoInvocation

Logged(r, ops) == [r EXCEPT !.log = r.log \o ops]

\* getOrCreateSandbox returned `sb`: the handler goes on with its next await.
Returned(r, sb) ==
  [Logged(r, <<Op("return", "ok")>>) EXCEPT
     !.ret = "ok", !.sb = sb,
     !.pc = CASE r.kind = "initialize" -> "setup"
              [] r.kind = "status" -> "reread"
              [] OTHER -> "resetCmd"]

\* getOrCreateSandbox threw: the handler's catch answers the request.
Thrown(r) ==
  [Logged(r, <<Op("return", "throw")>>) EXCEPT
     !.ret = "error", !.pc = "done",
     !.resp = IF r.kind = "status" THEN "healthCheckFailed" ELSE "500"]

\* The try block of getOrCreateSandbox threw: its catch logs and falls through to create.
FallThrough(r) == [r EXCEPT !.pc = "create"]

\* Entry of getOrCreateSandbox: if (sandboxState.sandboxId) ...
Enter(r) == [r EXCEPT !.pc = IF r.st.sandboxId # NoId THEN "findOne" ELSE "create"]

Respond(r, resp) == [r EXCEPT !.pc = "done", !.resp = resp]

\* A handler's first await: getSandboxState on the Durable Object.
Receive(p, kind) ==
  /\ p \in procs
  /\ req[p].pc = "idle"
  /\ storage' = getSandboxState_put(storage, now)
  /\ LET st == getSandboxState_ret(storage, now)
         r == [Idle EXCEPT !.kind = kind, !.st = st]
         bound == st.isInitialized /\ st.sandboxId # NoId
     IN req' = [req EXCEPT ![p] =
          CASE kind = "initialize" -> IF bound THEN Respond(r, "alreadyInitialized") ELSE Enter(r)
            [] kind = "status" -> IF bound THEN Enter(r) ELSE Respond(r, "status")
            [] OTHER -> IF bound THEN Enter(r) ELSE Respond(r, "400")]
  /\ UNCHANGED <<now, nextId, procs, bridge>>

Initialize(p) == Receive(p, "initialize")

Status(p) == Receive(p, "status")

ResetSession(p) == Receive(p, "reset")

\* Mutant: the state compared as reported, without toUpperCase.
Branch_caseSensitive(state) ==
  CASE state = "STARTED" -> "health"
    [] state = "STOPPED" -> "start"
    [] state = "ARCHIVED" -> "start"
    [] OTHER -> "create"

\* Mutant: a sandbox in an unexpected state is started like a stopped one.
Branch_startsUnknown(state) ==
  CASE ToUpperCase(state) = "STARTED" -> "health"
    [] OTHER -> "start"

\* The branch of getOrCreateSandbox on the state the found sandbox reports.
Branch(state) ==
  CASE ToUpperCase(state) = "STARTED" -> "health"
    [] ToUpperCase(state) = "STOPPED" -> "start"
    [] ToUpperCase(state) = "ARCHIVED" -> "start"
    [] OTHER -> "create"

\* daytona.findOne({id}): the provider reports the sandbox in some state, or the lookup
\* throws (the sandbox is gone, the transport failed).
FindOne(p) ==
  LET r == req[p] IN
  /\ r.pc = "findOne"
  /\ \/ \E state \in SandboxStatus :
          req' = [req EXCEPT ![p] =
            [Logged(r, <<Op("findOne", state)>>) EXCEPT !.sb = r.st.sandboxId, !.pc = Branch(state)]]
     \/ req' = [req EXCEPT ![p] = FallThrough(Logged(r, <<Op("findOne", "raise")>>))]
     /\ UNCHANGED <<storage, now, nextId, procs, bridge>>

\* Mutant: a healthy sandbox has its preview address stored again before the return.
HealthCheck_refreshesUrl(p) ==
  LET r == req[p] IN
  /\ r.pc = "health"
  /\ \/ req' = [req EXCEPT ![p] = [Logged(r, <<Op("health", "ok")>>) EXCEPT !.pc = "setUrl"]]
     \/ req' = [req EXCEPT ![p] = [Logged(r, <<Op("health", "notok")>>) EXCEPT !.pc = "ensureElse"]]
     \/ req' = [req EXCEPT ![p] = [Logged(r, <<Op("health", "raise")>>) EXCEPT !.pc = "ensureCatch"]]
  /\ UNCHANGED <<storage, now, nextId, procs, bridge>>

\* getPreviewLink(3000) and the HEAD probe with its 5 s timeout.
HealthCheck(p) ==
  LET r == req[p] IN
  /\ r.pc = "health"
  /\ \/ req' = [req EXCEPT ![p] = Returned(Logged(r, <<Op("health", "ok")>>), r.sb)]
     \/ req' = [req EXCEPT ![p] = [Logged(r, <<Op("health", "notok")>>) EXCEPT !.pc = "ensureElse"]]
     \/ req' = [req EXCEPT ![p] = [Logged(r, <<Op("health", "raise")>>) EXCEPT !.pc = "ensureCatch"]]
  /\ UNCHANGED <<storage, now, nextId, procs, bridge>>

\* Mutant: a throw of ensureDevServerRunning leaves getOrCreateSandbox.
Ensure_propagates(p) ==
  LET r == req[p] IN
  /\ r.pc \in {"ensureElse", "ensureCatch", "ensureStarted"}
  /\ \E run \in ensureDevServerRunning :
       LET q == Logged(r, <<Op("ensure", "call")>> \o run.cmds) IN
       req' = [req EXCEPT ![p] =
         CASE run.throws -> Thrown(q)
           [] r.pc = "ensureStarted" -> [q EXCEPT !.pc = "preview"]
           [] OTHER -> Returned(q, r.sb)]
  /\ UNCHANGED <<storage, now, nextId, procs, bridge>>

\* A call of ensureDevServerRunning: in the health check's else branch (a throw lands
\* in the health check's catch, which calls it again), in that catch, or after start.
Ensure(p) ==
  LET r == req[p] IN
  /\ r.pc \in {"ensureElse", "ensureCatch", "ensureStarted"}
  /\ \E run \in ensureDevServerRunning :
       LET q == Logged(r, <<Op("ensure", "call")>> \o run.cmds) IN
       req' = [req EXCEPT ![p] =
         CASE run.throws /\ r.pc = "ensureElse" -> [q EXCEPT !.pc = "ensureCatch"]
           [] run.throws -> FallThrough(q)
           [] r.pc = "ensureStarted" -> [q EXCEPT !.pc = "preview"]
           [] OTHER -> Returned(q, r.sb)]
  /\ UNCHANGED <<storage, now, nextId, procs, bridge>>

\* Mutant: a failed start is tried again before giving up.
Start_retried(p) ==
  LET r == req[p] IN
  /\ r.pc = "start"
  /\ \/ req' = [req EXCEPT ![p] = [Logged(r, <<Op("start", "ok")>>) EXCEPT !.pc = "ensureStarted"]]
     \/ req' = [req EXCEPT ![p] = FallThrough(Logged(r, <<Op("start", "raise"), Op("start", "raise")>>))]
  /\ UNCHANGED <<storage, now, nextId, procs, bridge>>

\* sandbox.start() of a stopped or archived sandbox.
Start(p) ==
  LET r == req[p] IN
  /\ r.pc = "start"
  /\ \/ req' = [req EXCEPT ![p] = [Logged(r, <<Op("start", "ok")>>) EXCEPT !.pc = "ensureStarted"]]
     \/ req' = [req EXCEPT ![p] = FallThrough(Logged(r, <<Op("start", "raise")>>))]
  /\ UNCHANGED <<storage, now, nextId, procs, bridge>>

\* Mutant: the restarted sandbox is returned without refreshing the preview URL.
Preview_skipped(p) ==
  LET r == req[p] IN
  /\ r.pc = "preview"
  /\ req' = [req EXCEPT ![p] = Returned(r, r.sb)]
  /\ UNCHANGED <<storage, now, nextId, procs, bridge>>

\* getPreviewLink(3000) after the restart.
Preview(p) ==
  LET r == req[p] IN
  /\ r.pc = "preview"
  /\ \/ req' = [req EXCEPT ![p] = [Logged(r, <<Op("getPreviewLink", "ok")>>) EXCEPT !.pc = "setUrl"]]
     \/ req' = [req EXCEPT ![p] = FallThrough(Logged(r, <<Op("getPreviewLink", "raise")>>))]
  /\ UNCHANGED <<storage, now, nextId, procs, bridge>>

\* The preview URL of sandbox id.
PreviewUrl(id) == id

\* sandboxManager.setDevServerUrl(previewInfo.url), then return sandbox.
SetUrl(p) ==
  LET r == req[p] IN
  /\ r.pc = "setUrl"
  /\ storage' = setDevServerUrl(storage, PreviewUrl(r.sb), now)
  /\ req' = [req EXCEPT ![p] = Returned(Logged(r, <<Op("setDevServerUrl", "ok")>>), r.sb)]
  /\ UNCHANGED <<now, nextId, procs, bridge>>

\* Mutant: a failed create is tried again.
CreateFailed_retried(r) == [Logged(r, <<Op("create", "raise")>>) EXCEPT !.pc = "create"]

\* Mutant: a failed create is swallowed and the stale handle returned.
CreateFailed_swallowed(r) == Returned(Logged(r, <<Op("create", "raise")>>), r.sb)

\* After a failed create the function is left by the exception.
CreateFailed(r) == Thrown(Logged(r, <<Op("create", "raise")>>))

\* Mutant: a single-flight guard; a request that finds another request's new sandbox
\* takes it instead of creating its own.
Create_singleFlight(p) ==
  LET r == req[p]
      Created(q) == \E i \in 1..Len(req[q].log) : req[q].log[i] = Op("create", "ok")
  IN
  /\ r.pc = "create"
  /\ \/ /\ \E q \in procs \ {p} : Created(q)
        /\ req' = [req EXCEPT ![p] =
             Returned(r, req[CHOOSE q \in procs \ {p} : Created(q)].sb)]
        /\ UNCHANGED nextId
     \/ /\ \A q \in procs \ {p} : ~Created(q)
        /\ nextId <= MaxSandboxes
        /\ nextId' = nextId + 1
        /\ req' = [req EXCEPT ![p] =
             [Logged(r, <<Op("create", "ok")>>) EXCEPT !.sb = nextId, !.pc = "bind"]]
     \/ /\ req' = [req EXCEPT ![p] = CreateFailed(r)]
        /\ UNCHANGED nextId
  /\ UNCHANGED <<storage, now, procs, bridge>>

\* daytona.create({snapshot, user, envVars, public}).
Create(p) ==
  LET r == req[p] IN
  /\ r.pc = "create"
  /\ \/ /\ nextId <= MaxSandboxes
        /\ nextId' = nextId + 1
        /\ req' = [req EXCEPT ![p] =
             [Logged(r, <<Op("create", "ok")>>) EXCEPT !.sb = nextId, !.pc = "bind"]]
     \/ /\ req' = [req EXCEPT ![p] = CreateFailed(r)]
        /\ UNCHANGED nextId
  /\ UNCHANGED <<storage, now, procs, bridge>>

\* Mutant: the new sandbox is bound only if the record is still unbound.
Bind_ifUnbound(p) ==
  LET r == req[p] IN
  /\ r.pc = "bind"
  /\ storage' = IF storage.sandboxId = NoId THEN setSandboxState(storage, r.sb, now)
                ELSE getSandboxState_put(storage, now)
  /\ req' = [req EXCEPT ![p] = Returned(Logged(r, <<Op("setSandboxState", "ok")>>), r.sb)]
  /\ UNCHANGED <<now, nextId, procs, bridge>>

\* sandboxManager.setSandboxState(sandbox.id), then return sandbox.
Bind(p) ==
  LET r == req[p] IN
  /\ r.pc = "bind"
  /\ storage' = setSandboxState(storage, r.sb, now)
  /\ req' = [req EXCEPT ![p] = Returned(Logged(r, <<Op("setSandboxState", "ok")>>), r.sb)]
  /\ UNCHANGED <<now, nextId, procs, bridge>>

-----------------------------------------------------------------------------
(* The handlers after getOrCreateSandbox *)

\* /api/initialize: user, template, ownership, pm2 start, pm2 save.
Setup(p) ==
  LET r == req[p] IN
  /\ r.pc = "setup"
  /\ \/ req' = [req EXCEPT ![p] = [r EXCEPT !.pc = "initPreview"]]
     \/ req' = [req EXCEPT ![p] = Respond(r, "500")]
  /\ UNCHANGED <<storage, now, nextId, procs, bridge>>

InitPreview(p) ==
  LET r == req[p] IN
  /\ r.pc = "initPreview"
  /\ \/ req' = [req EXCEPT ![p] = [r EXCEPT !.pc = "initSetUrl"]]
     \/ req' = [req EXCEPT ![p] = Respond(r, "500")]
  /\ UNCHANGED <<storage, now, nextId, procs, bridge>>

InitSetUrl(p) ==
  LET r == req[p] IN
  /\ r.pc = "initSetUrl"
  /\ storage' = setDevServerUrl(storage, PreviewUrl(r.sb), now)
  /\ req' = [req EXCEPT ![p] = Respond(r, "initialized")]
  /\ UNCHANGED <<now, nextId, procs, bridge>>

\* /api/status: the state after the recovery.
Reread(p) ==
  LET r == req[p] IN
  /\ r.pc = "reread"
  /\ storage' = getSandboxState_put(storage, now)
  /\ req' = [req EXCEPT ![p] = Respond(r, "status")]
  /\ UNCHANGED <<now, nextId, procs, bridge>>

\* /api/reset-session: claude --new-session in the sandbox.
ResetCmd(p) ==
  LET r == req[p] IN
  /\ r.pc = "resetCmd"
  /\ \/ req' = [req EXCEPT ![p] = [r EXCEPT !.pc = "clear"]]
     \/ req' = [req EXCEPT ![p] = Respond(r, "500")]
  /\ UNCHANGED <<storage, now, nextId, procs, bridge>>

\* Mutant: the session is reset in the sandbox but the conversation is kept.
Clear_skipped(p) ==
  LET r == req[p] IN
  /\ r.pc = "clear"
  /\ req' = [req EXCEPT ![p] = Respond(r, "reset")]
  /\ UNCHANGED <<storage, now, nextId, procs, bridge>>

\* sandboxManager.clearMessages(), then the success response.
Clear(p) ==
  LET r == req[p] IN
  /\ r.pc = "clear"
  /\ storage' = clearMessages(storage, now)
  /\ req' = [req EXCEPT ![p] = Respond(r, "reset")]
  /\ UNCHANGED <<now, nextId, procs, bridge>>

\* The response is sent; the process serves the next request.
Finish(p) ==
  /\ req[p].pc = "done"
  /\ req' = [req EXCEPT ![p] = Idle]
  /\ UNCHANGED <<storage, now, nextId, procs, bridge>>

Next ==
  \E p \in Procs :
    \/ Initialize(p) \/ Status(p) \/ ResetSession(p)
    \/ FindOne(p) \/ HealthCheck(p) \/ Ensure(p) \/ Start(p) \/ Preview(p) \/ SetUrl(p)
    \/ Create(p) \/ Bind(p)
    \/ Setup(p) \/ InitPreview(p) \/ InitSetUrl(p) \/ Reread(p) \/ ResetCmd(p) \/ Clear(p)
    \/ Finish(p)

Spec == Init /\ [][Next]_vars

-----------------------------------------------------------------------------
(* The streaming bridge: the log callback *)

\* Characters of the remote output: a newline, a null byte, a space; the rest is text.
NL == "\n"
NUL == "NUL"
SP == " "

\* chunk.replace(/\0/g, '')
Strip(s) == SelectSeq(s, LAMBDA c : c # NUL)

\* s.split('\n'): the pieces between the newlines, the last one unterminated.
RECURSIVE Split(_)
Split(s) ==
  IF \E i \in 1..Len(s) : s[i] = NL
    THEN LET i == CHOOSE k \in 1..Len(s) : s[k] = NL /\ \A j \in 1..(k - 1) : s[j] # NL
         IN <<SubSeq(s, 1, i - 1)>> \o Split(SubSeq(s, i + 1, Len(s)))
    ELSE <<s>>

\* s.trim()
Trim(s) ==
  LET ink == {i \in 1..Len(s) : s[i] \notin {SP, NL}} IN
  IF ink = {} THEN <<>>
  ELSE SubSeq(s, CHOOSE i \in ink : \A j \in ink : i <= j, CHOOSE i \in ink : \A j \in ink : j <= i)

NoValue == [kind |-> "none", type |-> "", message |-> FALSE, content |-> <<>>, model |-> ""]

\* A content block of an assistant message: "t" writes a tool_use block, any other
\* character a text block holding it.
Block(c) == IF c = "t" THEN [type |-> "tool_use", text |-> <<>>] ELSE [type |-> "text", text |-> <<c>>]

Object(type, message, content) ==
  [kind |-> "object", type |-> type, message |-> message, content |-> content, model |-> ""]

\* JSON.parse(line), on the lines the remote command is taken to print: 1 is a number,
\* null is null, {} an object without type, {s} a system event, {A} an assistant event
\* without message, {a...} an assistant event whose message has the content blocks
\* written between; white space around a value is allowed; anything else throws.
JSONParse(line) ==
  LET t == Trim(line)
      n == Len(t)
      Ok(v) == [ok |-> TRUE, value |-> v]
  IN CASE t = <<"1">> -> Ok([NoValue EXCEPT !.kind = "number"])
       [] t = <<"n", "u", "l", "l">> -> Ok([NoValue EXCEPT !.kind = "null"])
       [] t = <<"{", "}">> -> Ok(Object("", FALSE, <<>>))
       [] t = <<"{", "s", "}">> -> Ok(Object("system", FALSE, <<>>))
       [] t = <<"{", "A", "}">> -> Ok(Object("assistant", FALSE, <<>>))
       [] n >= 3 /\ t[1] = "{" /\ t[2] = "a" /\ t[n] = "}"
            /\ \A i \in 3..(n - 1) : t[i] \in {"x", "y", "t"}
            -> Ok(Object("assistant", TRUE, [i \in 1..(n - 3) |-> Block(t[i + 2])]))
       [] OTHER -> [ok |-> FALSE, value |-> NoValue]

\* The events sent to the caller: connection.send on the WebSocket ("ws"),
\* controller.enqueue of a server-sent event on /api/run-code ("sse").
Event(type, content, value) == [type |-> type, content |-> content, value |-> value]

Structured(variant, v) ==
  IF variant = "ws" THEN Event("claude_streaming", <<>>, v) ELSE Event("data", <<>>, v)

RawText(variant, line) ==
  IF variant = "ws" THEN Event("claude_text", line, NoValue)
  ELSE Event("data", <<>>,
         [Object("assistant", TRUE, <<[type |-> "text", text |-> line]>>) EXCEPT !.model = "claude-fallback"])

RECURSIVE TextOf(_)
\* The text of the text blocks, in order.
TextOf(content) ==
  IF content = <<>> THEN <<>>
  ELSE (IF Head(content).type = "text" THEN Head(content).text ELSE <<>>) \o TextOf(Tail(content))

\* Mutant: the catch forwards the raw line and forgets to keep it.
ProcessLine_rawNotKept(variant, line) ==
  LET parsed == JSONParse(line)
      v == parsed.value
  IN IF ~parsed.ok THEN [events |-> <<RawText(variant, line)>>, text |-> <<>>]
     ELSE IF v.kind = "null" \/ (variant = "sse" /\ v.type = "assistant" /\ ~v.message)
       THEN [events |-> <<Structured(variant, v), RawText(variant, line)>>, text |-> <<>>]
     ELSE IF v.type = "assistant" /\ v.message
       THEN [events |-> <<Structured(variant, v)>>, text |-> TextOf(v.content)]
     ELSE [events |-> <<Structured(variant, v)>>, text |-> <<>>]

\* The body of the loop over the complete lines, for one non-blank line: the events
\* sent and the text added to assistantContent. The catch around JSON.parse also
\* catches what the code after the send throws: reading .type of null, and on
\* /api/run-code reading .content of a missing message.
ProcessLine(variant, line) ==
  LET parsed == JSONParse(line)
      v == parsed.value
      raw == [events |-> <<RawText(variant, line)>>, text |-> line \o <<NL>>]
  IN IF ~parsed.ok THEN raw
     ELSE IF v.kind = "null" \/ (variant = "sse" /\ v.type = "assistant" /\ ~v.message)
       THEN [raw EXCEPT !.events = <<Structured(variant, v)>> \o raw.events]
     ELSE IF v.type = "assistant" /\ v.message
       THEN [events |-> <<Structured(variant, v)>>, text |-> TextOf(v.content)]
     ELSE [events |-> <<Structured(variant, v)>>, text |-> <<>>]

\* if (!line.trim()) continue
IsBlank(line) == Trim(line) = <<>>

RECURSIVE ProcessLines(_, _)
\* for (const line of lines) ...
ProcessLines(variant, lines) ==
  IF lines = <<>> THEN [events |-> <<>>, text |-> <<>>]
  ELSE LET rest == ProcessLines(variant, Tail(lines))
           one == IF IsBlank(Head(lines)) THEN [events |-> <<>>, text |-> <<>>]
                  ELSE ProcessLine(variant, Head(lines))
       IN [events |-> one.events \o rest.events, text |-> one.text \o rest.text]

\* Mutant: the unterminated tail is processed with the complete lines and dropped.
OnChunk_noCarry(variant, closed, buffer, acc, chunk) ==
  LET lines == Split(buffer \o Strip(chunk))
      done == ProcessLines(variant, lines)
  IN [buffer |-> <<>>, acc |-> acc \o done.text, events |-> done.events]

\* Mutant: the lines processed are left in the buffer.
OnChunk_keepsLines(variant, closed, buffer, acc, chunk) ==
  LET lines == Split(buffer \o Strip(chunk))
      done == ProcessLines(variant, SubSeq(lines, 1, Len(lines) - 1))
  IN [buffer |-> buffer \o Strip(chunk), acc |-> acc \o done.text, events |-> done.events]

\* The callback of getSessionCommandLogs on one chunk. On /api/run-code a chunk that
\* arrives after controller.close() still moves the buffer, but its first enqueue
\* throws and the callback's outer catch drops the rest of the chunk.
OnChunk(variant, closed, buffer, acc, chunk) ==
  LET lines == Split(buffer \o Strip(chunk))
      complete == SubSeq(lines, 1, Len(lines) - 1)
      done == ProcessLines(variant, complete)
      dropped == variant = "sse" /\ closed
  IN [buffer |-> lines[Len(lines)],
      acc |-> IF dropped THEN acc ELSE acc \o done.text,
      events |-> IF dropped THEN <<>> ELSE done.events]

-----------------------------------------------------------------------------
(* The streaming bridge: one invocation *)

\* Bound: the lines of a remote output (SpecChunks).
MaxLines == 2

\* Bound: no new message is taken once the conversation holds this many.
MaxMessages == 3

Variants == {"ws", "sse"}

\* Lines the remote command prints: empty, blank, raw text, raw text with a null
\* byte, and JSON lines (null, an object without type, an assistant event without
\* message, an assistant event with two text blocks around a tool_use block).
Lines ==
  {<<>>, <<SP>>, <<"h", "i">>, <<"h", NUL, "o">>, <<"n", "u", "l", "l">>, <<"{", "}">>,
   <<"{", "A", "}">>, <<"{", "a", "x", "t", "y", "}">>}

\* Lines of the outputs of a whole invocation (SpecBridge).
FlowLines == {<<"h", "i">>, <<"{", "a", "x", "}">>}

RECURSIVE Outputs(_, _)
\* The outputs of at most n lines, each line terminated except possibly the last.
Outputs(lines, n) ==
  IF n = 0 THEN {<<>>}
  ELSE {<<>>} \cup lines
       \cup {l \o <<NL>> \o o : l \in lines, o \in Outputs(lines, n - 1)}

\* Message: the user's (id Date.now().toString()) and the assistant's (id
\* (Date.now() + Math.random()).toString(): frac tells whether the sum kept a fraction).
UserMessage(t) == [id |-> <<t, 0>>, content |-> <<"q">>, sender |-> "user", timestamp |-> t]

AiMessage(t, frac, content) ==
  [id |-> <<t, frac>>, content |-> content, sender |-> "assistant", timestamp |-> t]

ErrorEvent(variant, message) ==
  IF variant = "ws" THEN Event("error", <<message>>, NoValue)
  ELSE Event("data", <<message>>, [NoValue EXCEPT !.kind = "object", !.type = "error"])

IsError(e) == e.type = "error" \/ (e.type = "data" /\ e.value.type = "error")

Send(b, evs) == [b EXCEPT !.events = @ \o evs]

\* The record after /api/initialize bound sandbox 1.
Bound1 == setDevServerUrl(setSandboxState(NoRecord, 1, 1), 1, 1)

\* The completion signal: claude_complete on the WebSocket, controller.close() on
\* /api/run-code.
Complete(b) ==
  IF b.variant = "ws"
    THEN [Send(b, <<Event("claude_complete",
                          IF Trim(b.assistantContent) # <<>> THEN Trim(b.assistantContent)
                          ELSE <<"Claude task completed">>, NoValue)>>)
            EXCEPT !.pc = "done"]
    ELSE [b EXCEPT !.pc = "done", !.closed = TRUE]

\* Mutant: the catch of the race returns without finalizing.
Finalize_skipped(b) == Complete(b)

\* Mutant: the assistant's content is stored as accumulated, untrimmed.
Finalize_untrimmed(b) ==
  IF Trim(b.assistantContent) # <<>>
    THEN [b EXCEPT !.pc = "adding", !.aiContent = b.assistantContent]
    ELSE Complete(b)

\* if (assistantContent.trim()) { aiMessage = ...; await addMessage(aiMessage) }
Finalize(b) ==
  IF Trim(b.assistantContent) # <<>>
    THEN [b EXCEPT !.pc = "adding", !.aiContent = Trim(b.assistantContent)]
    ELSE Complete(b)

\* Promise.race settles: with how, and what the catch sends.
Settle(b, how, evs) ==
  Finalize([Send(b, evs) EXCEPT !.race = how, !.atRace = b.assistantContent])

\* The catch blocks around the invocation: an error event, and on /api/run-code
\* the stream is closed.
Failed(b, message) ==
  [Send(b, <<ErrorEvent(b.variant, message)>>) EXCEPT
     !.pc = "done", !.closed = (b.variant = "sse")]

\* Mutant: the record is not examined; the message is handled whatever it holds.
OnMessage_noGuard(variant) ==
  /\ bridge.pc \in {"idle", "done"}
  /\ Len(storage.messages) < MaxMessages
  /\ storage' = getSandboxState_put(storage, now)
  /\ bridge' = [NoInvocation EXCEPT
                  !.variant = variant, !.sandboxState = getSandboxState_ret(storage, now),
                  !.pc = IF variant = "ws" THEN "addUser" ELSE "resolve"]
  /\ UNCHANGED <<now, nextId, procs, req>>

\* A message arrives: getSandboxState and the guard on the binding.
OnMessage(variant) ==
  /\ bridge.pc \in {"idle", "done"}
  /\ Len(storage.messages) < MaxMessages
  /\ LET sandboxState == getSandboxState_ret(storage, now)
         b == [NoInvocation EXCEPT !.variant = variant, !.sandboxState = sandboxState]
     IN /\ storage' = getSandboxState_put(storage, now)
        /\ bridge' =
             IF ~sandboxState.isInitialized \/ sandboxState.sandboxId = NoId
               THEN IF variant = "ws"
                      THEN [Send(b, <<ErrorEvent("ws", "No active sandbox found")>>)
                              EXCEPT !.pc = "done"]
                      ELSE [b EXCEPT !.pc = "done", !.resp = "400"]
               ELSE [b EXCEPT !.pc = IF variant = "ws" THEN "addUser" ELSE "resolve"]
  /\ UNCHANGED <<now, nextId, procs, req>>

\* /api/run-code resolves the sandbox first; getOrCreateSandbox by its outcomes: the
\* sandbox reused, restarted (preview address stored), replaced by a new one, or a
\* throw, which the handler answers with 500 after resetting the record when the
\* error message mentions "sandbox".
Resolve ==
  /\ bridge.pc = "resolve"
  /\ \/ /\ bridge' = [bridge EXCEPT !.pc = "addUser"]
        /\ \/ UNCHANGED <<storage, nextId>>
           \/ /\ storage' = setDevServerUrl(storage, PreviewUrl(storage.sandboxId), now)
              /\ UNCHANGED nextId
           \/ /\ nextId <= MaxSandboxes
              /\ storage' = setSandboxState(storage, nextId, now)
              /\ nextId' = nextId + 1
     \/ /\ bridge' = [bridge EXCEPT !.pc = "done", !.resp = "500"]
        /\ \/ storage' = resetSandboxState(storage, now)
           \/ UNCHANGED storage
        /\ UNCHANGED nextId
  /\ UNCHANGED <<now, procs, req>>

\* Mutant: the user's message is acknowledged but not stored.
AddUser_notStored ==
  /\ bridge.pc = "addUser"
  /\ bridge' =
       IF bridge.variant = "ws"
         THEN [Send(bridge, <<Event("user_message_received", <<"q">>, NoValue)>>)
                 EXCEPT !.pc = "lookup"]
         ELSE [bridge EXCEPT !.pc = "session", !.resp = "stream"]
  /\ UNCHANGED <<storage, now, nextId, procs, req>>

\* addMessage(userMessage), then the acknowledgment on the WebSocket.
AddUser ==
  /\ bridge.pc = "addUser"
  /\ storage' = addMessage(storage, UserMessage(now), now)
  /\ bridge' =
       IF bridge.variant = "ws"
         THEN [Send(bridge, <<Event("user_message_received", <<"q">>, NoValue)>>)
                 EXCEPT !.pc = "lookup"]
         ELSE [bridge EXCEPT !.pc = "session", !.resp = "stream"]
  /\ UNCHANGED <<now, nextId, procs, req>>

\* daytona.findOne({ id: sandboxState.sandboxId })
Lookup ==
  /\ bridge.pc = "lookup"
  /\ \/ bridge' = [bridge EXCEPT !.pc = "session"]
     \/ bridge' = Failed(bridge, "findOne")
  /\ UNCHANGED <<storage, now, nextId, procs, req>>

\* sandbox.process.createSession(sessionId)
CreateSession ==
  /\ bridge.pc = "session"
  /\ \/ bridge' = [bridge EXCEPT !.pc = "command"]
     \/ bridge' = Failed(bridge, "createSession")
  /\ UNCHANGED <<storage, now, nextId, procs, req>>

\* The user messages of the state read when the message arrived.
UserCount(messages) == Cardinality({i \in DOMAIN messages : messages[i].sender = "user"})

\* executeSessionCommand, then getSessionCommandLogs and the timer are started.
ExecuteCommand ==
  /\ bridge.pc = "command"
  /\ LET isFirstMessage == UserCount(bridge.sandboxState.messages) <= 1
         b == [bridge EXCEPT !.continueFlag = ~isFirstMessage]
     IN \/ \E o \in Outputs(FlowLines, 2) :
             bridge' = [b EXCEPT !.pc = "streaming", !.out = o,
                                 !.sub = "active", !.timer = "armed"]
        \/ bridge' = Failed(b, "executeSessionCommand")
  /\ UNCHANGED <<storage, now, nextId, procs, req>>

\* The subscription hands the next k characters of the output to the callback.
Deliver(k) ==
  /\ bridge.sub = "active"
  /\ k \in 1..Len(bridge.out)
  /\ LET chunk == SubSeq(bridge.out, 1, k)
         r == OnChunk(bridge.variant, bridge.closed, bridge.buffer, bridge.assistantContent, chunk)
     IN bridge' = [Send(bridge, r.events) EXCEPT
                     !.out = SubSeq(bridge.out, k + 1, Len(bridge.out)),
                     !.received = @ \o chunk,
                     !.joined = bridge.buffer # <<>> /\ \E i \in 1..k : chunk[i] = NL,
                     !.buffer = r.buffer,
                     !.assistantContent = r.acc]
  /\ UNCHANGED <<storage, now, nextId, procs, req>>

\* The callback runs on a chunk of any length.
Chunk == \E k \in 1..Len(bridge.out) : Deliver(k)

\* The log stream ends after its last chunk: logStreamingPromise resolves.
LogsEnd ==
  /\ bridge.sub = "active"
  /\ bridge.out = <<>>
  /\ LET b == [bridge EXCEPT !.sub = "completed"]
     IN bridge' = IF bridge.pc = "streaming" THEN Settle(b, "completed", <<>>) ELSE b
  /\ UNCHANGED <<storage, now, nextId, procs, req>>

\* The log stream breaks: logStreamingPromise rejects.
LogsFail ==
  /\ bridge.sub = "active"
  /\ LET b == [bridge EXCEPT !.sub = "failed"]
     IN bridge' = IF bridge.pc = "streaming"
                    THEN Settle(b, "failed", <<ErrorEvent(bridge.variant, "failed")>>)
                    ELSE b
  /\ UNCHANGED <<storage, now, nextId, procs, req>>

\* Mutant: the timer's handler reports the timeout whether or not the race is over.
Timeout_lateError ==
  /\ bridge.timer = "armed"
  /\ LET b == [bridge EXCEPT !.timer = "fired"]
     IN bridge' = IF bridge.pc = "streaming"
                    THEN Settle(b, "timeout", <<ErrorEvent(bridge.variant, "timed out")>>)
                    ELSE Send(b, <<ErrorEvent(bridge.variant, "timed out")>>)
  /\ UNCHANGED <<storage, now, nextId, procs, req>>

\* The 30 s timer fires: timeoutPromise rejects, which settles the race if it is
\* still pending.
Timeout ==
  /\ bridge.timer = "armed"
  /\ LET b == [bridge EXCEPT !.timer = "fired"]
     IN bridge' = IF bridge.pc = "streaming"
                    THEN Settle(b, "timeout", <<ErrorEvent(bridge.variant, "timed out")>>)
                    ELSE b
  /\ UNCHANGED <<storage, now, nextId, procs, req>>

\* Mutant: the assistant's message is appended twice.
AddAssistant_twice ==
  /\ bridge.pc = "adding"
  /\ \E frac \in {0, 1} :
       storage' = addMessage(addMessage(storage, AiMessage(now, frac, bridge.aiContent), now),
                             AiMessage(now, frac, bridge.aiContent), now)
  /\ bridge' = Complete(bridge)
  /\ UNCHANGED <<now, nextId, procs, req>>

\* await addMessage(aiMessage), then the completion signal.
AddAssistant ==
  /\ bridge.pc = "adding"
  /\ \E frac \in {0, 1} :
       storage' = addMessage(storage, AiMessage(now, frac, bridge.aiContent), now)
  /\ bridge' = Complete(bridge)
  /\ UNCHANGED <<now, nextId, procs, req>>

InitBridge ==
  /\ storage \in {NoRecord, Bound1}
  /\ now = 1
  /\ nextId = 2
  /\ procs = {}
  /\ req = [p \in Procs |-> Idle]
  /\ bridge = NoInvocation

NextBridge ==
  \/ \E variant \in Variants : OnMessage(variant)
  \/ Resolve
  \/ AddUser
  \/ Lookup
  \/ CreateSession
  \/ ExecuteCommand
  \/ Chunk
  \/ LogsEnd
  \/ LogsFail
  \/ Timeout
  \/ AddAssistant

SpecBridge == InitBridge /\ [][NextBridge]_vars

\* The log callback on its own: an invocation that reached the streaming, an output
\* of up to MaxLines lines cut into chunks anywhere, and a subscription that
\* completes in time.
InitChunks ==
  /\ storage = addMessage(Bound1, UserMessage(1), 1)
  /\ now = 1
  /\ nextId = 2
  /\ procs = {}
  /\ req = [p \in Procs |-> Idle]
  /\ \E variant \in Variants, o \in Outputs(Lines, MaxLines) :
       bridge = [NoInvocation EXCEPT
                   !.variant = variant, !.pc = "streaming", !.sandboxState = Bound1,
                   !.out = o, !.sub = "active", !.timer = "armed",
                   !.resp = IF variant = "sse" THEN "stream" ELSE "none",
                   !.events = IF variant = "ws"
                                THEN <<Event("user_message_received", <<"q">>, NoValue)>>
                                ELSE <<>>]

NextChunks ==
  \/ Chunk
  \/ LogsEnd
  \/ AddAssistant

SpecChunks == InitChunks /\ [][NextChunks]_vars

-----------------------------------------------------------------------------
(* The SandboxManager's operations, called directly *)

\* Bound: the calls of one history.
MaxCalls == 2

\* Bound: the clock's last value.
MaxClock == 2

\* Records the program leaves in the storage: none, the one /api/initialize binds,
\* the same after a turn of conversation, and the one a reset writes.
Records ==
  {NoRecord,
   Bound1,
   addMessage(addMessage(Bound1, UserMessage(1), 1), AiMessage(1, 1, <<"h", "i">>), 1),
   resetSandboxState(Bound1, 1)}

\* The caller's record of a call: the operation, its argument (an id or an address),
\* the storage it found, and the operations called so far.
Called(r, name, arg) ==
  [r EXCEPT !.kind = name, !.pc = "done", !.st = storage, !.sb = arg,
            !.log = Append(@, Op(name, "ok")), !.ret = "ok"]

CanCall == Len(req[1].log) < MaxCalls

GetSandboxState ==
  /\ CanCall
  /\ storage' = getSandboxState_put(storage, now)
  /\ req' = [req EXCEPT ![1] = Called(@, "getSandboxState", NoId)]
  /\ UNCHANGED <<now, nextId, procs, bridge>>

SetSandboxState ==
  /\ CanCall
  /\ \E id \in 1..MaxSandboxes :
       /\ storage' = setSandboxState(storage, id, now)
       /\ req' = [req EXCEPT ![1] = Called(@, "setSandboxState", id)]
  /\ UNCHANGED <<now, nextId, procs, bridge>>

ResetSandboxState ==
  /\ CanCall
  /\ storage' = resetSandboxState(storage, now)
  /\ req' = [req EXCEPT ![1] = Called(@, "resetSandboxState", NoId)]
  /\ UNCHANGED <<now, nextId, procs, bridge>>

SetDevServerUrl ==
  /\ CanCall
  /\ \E id \in 1..MaxSandboxes :
       /\ storage' = setDevServerUrl(storage, PreviewUrl(id), now)
       /\ req' = [req EXCEPT ![1] = Called(@, "setDevServerUrl", PreviewUrl(id))]
  /\ UNCHANGED <<now, nextId, procs, bridge>>

AddMessage ==
  /\ CanCall
  /\ \E m \in {UserMessage(now), AiMessage(now, 1, <<"h", "i">>)} :
       storage' = addMessage(storage, m, now)
  /\ req' = [req EXCEPT ![1] = Called(@, "addMessage", NoId)]
  /\ UNCHANGED <<now, nextId, procs, bridge>>

ClearMessages ==
  /\ CanCall
  /\ storage' = clearMessages(storage, now)
  /\ req' = [req EXCEPT ![1] = Called(@, "clearMessages", NoId)]
  /\ UNCHANGED <<now, nextId, procs, bridge>>

\* Date.now() moves on between calls.
Tick ==
  /\ now < MaxClock
  /\ now' = now + 1
  /\ UNCHANGED <<storage, nextId, procs, req, bridge>>

InitStore ==
  /\ storage \in Records
  /\ now = 1
  /\ nextId = 2
  /\ procs = {1}
  /\ req = [p \in Procs |-> Idle]
  /\ bridge = NoInvocation

NextStore ==
  \/ GetSandboxState
  \/ SetSandboxState
  \/ ResetSandboxState
  \/ SetDevServerUrl
  \/ AddMessage
  \/ ClearMessages
  \/ Tick

SpecStore == InitStore /\ [][NextStore]_vars

-----------------------------------------------------------------------------
(* What a getOrCreateSandbox call did, read from its log *)

Count(log, name) == Cardinality({i \in 1..Len(log) : log[i][1] = name})

Has(log, op) == \E i \in 1..Len(log) : log[i] = op

\* Some entry equal to a comes before some entry equal to b.
Before(log, a, b) == \E i, j \in 1..Len(log) : i < j /\ log[i] = a /\ log[j] = b

\* getOrCreateSandbox has returned or thrown.
Resolved(r) == r.ret # "none"

FoundAs(r, states) ==
  \E i \in 1..Len(r.log) : r.log[i][1] = "findOne" /\ ToUpperCase(r.log[i][2]) \in states

Unhealthy(r) == Has(r.log, Op("health", "notok")) \/ Has(r.log, Op("health", "raise"))

\* The record names the sandbox the call returned.
BoundTo(s, id) == s.present /\ s.isInitialized /\ s.sandboxId = id

\* C1: a resolve call that started from a bound record and met no fault (the lookup
\* found the sandbox, reported running in whatever casing, and no probe failed) issued
\* no create and returned the sandbox the record names, the one an earlier call bound.
C1_IdempotentReuse ==
  \A p \in Procs :
    LET r == req[p] IN
    (Resolved(r) /\ r.st.sandboxId # NoId /\ FoundAs(r, {"STARTED"}) /\ ~Unhealthy(r))
      => /\ Count(r.log, "create") = 0
         /\ r.ret = "ok"
         /\ r.sb = r.st.sandboxId
         /\ BoundTo(storage, r.sb)

C1_Witness ==
  \E p \in Procs :
    LET r == req[p] IN
    /\ Resolved(r) /\ r.kind = "status" /\ r.st.sandboxId = 1 /\ nextId = 2
    /\ r.log = <<Op("findOne", "started"), Op("health", "ok"), Op("return", "ok")>>

\* The case of C2: the record was unbound, or the lookup by id threw.
C2_Case(r) == Resolved(r) /\ (r.st.sandboxId = NoId \/ Has(r.log, Op("findOne", "raise")))

\* C2 (as claimed): every such call issues one create, returns no error and leaves
\* the record bound to the new sandbox.
C2_Original ==
  \A p \in Procs :
    LET r == req[p] IN
    C2_Case(r) => Count(r.log, "create") = 1 /\ r.ret = "ok" /\ BoundTo(storage, r.sb)

\* C2 (amended): every such call issues exactly one create; when that create
\* succeeds no error is returned and the record is bound to the new sandbox.
C2_CreateOnceAndBind ==
  \A p \in Procs :
    LET r == req[p] IN
    C2_Case(r) =>
      /\ Count(r.log, "create") = 1
      /\ Has(r.log, Op("create", "ok")) =>
           /\ r.ret = "ok"
           /\ r.sb = nextId - 1
           /\ r.sb # r.st.sandboxId
           /\ Has(r.log, Op("setSandboxState", "ok"))
           /\ BoundTo(storage, r.sb)

C2_Witness ==
  \E p \in Procs :
    LET r == req[p] IN
    /\ C2_Case(r) /\ r.st.sandboxId = 1 /\ r.sb = 2 /\ BoundTo(storage, 2)
    /\ Has(r.log, Op("findOne", "raise"))

\* The case of C3: the lookup found the sandbox stopped or archived.
C3_Case(r) == Resolved(r) /\ FoundAs(r, {"STOPPED", "ARCHIVED"})

\* C3 (as claimed): start is issued once and the preview URL is fetched and stored
\* before the call returns (stated of the calls that return a sandbox).
C3_Original ==
  \A p \in Procs :
    LET r == req[p] IN
    (C3_Case(r) /\ r.ret = "ok") =>
      /\ Count(r.log, "start") = 1
      /\ Before(r.log, Op("getPreviewLink", "ok"), Op("setDevServerUrl", "ok"))

\* C3 (amended): start is issued exactly once; when the start, the ensure procedure
\* and the preview fetch succeed, the URL fetched after the start is stored in the
\* record before the call returns; when one of them throws nothing is stored and the
\* call goes on to create a sandbox.
C3_StartOnceAndRefresh ==
  \A p \in Procs :
    LET r == req[p]
        went == /\ Has(r.log, Op("start", "ok"))
                /\ ~Has(r.log, Op("pm2 start", "raise"))
                /\ Has(r.log, Op("getPreviewLink", "ok"))
    IN C3_Case(r) =>
         /\ Count(r.log, "start") = 1
         /\ went =>
              /\ Before(r.log, Op("start", "ok"), Op("getPreviewLink", "ok"))
              /\ Before(r.log, Op("getPreviewLink", "ok"), Op("setDevServerUrl", "ok"))
              /\ Before(r.log, Op("setDevServerUrl", "ok"), Op("return", "ok"))
              /\ storage.devServerUrl = PreviewUrl(r.st.sandboxId)
              /\ r.sb = r.st.sandboxId
              /\ Count(r.log, "create") = 0
         /\ ~went => Count(r.log, "setDevServerUrl") = 0 /\ Count(r.log, "create") = 1

C3_Witness ==
  \E p \in Procs :
    LET r == req[p] IN
    /\ C3_Case(r) /\ r.ret = "ok" /\ r.st.sandboxId = 2 /\ r.st.devServerUrl = 1
    /\ Has(r.log, Op("findOne", "Archived"))
    /\ storage.devServerUrl = PreviewUrl(2)

\* C4: one resolve call issues at most one create, whatever failed before it.
C4_AtMostOneCreate == \A p \in Procs : Count(req[p].log, "create") <= 1

C4_Witness ==
  \E p \in Procs :
    LET r == req[p] IN
    /\ Resolved(r) /\ Count(r.log, "create") = 1
    /\ Has(r.log, Op("health", "notok")) /\ Count(r.log, "ensure") = 2
    /\ Has(r.log, Op("create", "raise"))

\* The case of C5: found running, and the probe did not answer.
C5_Case(r) == Resolved(r) /\ FoundAs(r, {"STARTED"}) /\ Unhealthy(r)

EnsureReturned(r) == Cardinality({i \in 1..Len(r.log) : r.log[i] = Op("pm2 start", "raise")}) < Count(r.log, "ensure")

C6_Case(r) == Resolved(r) /\ Has(r.log, Op("start", "raise"))

\* C6 (as claimed): no retry, no create, and the caller gets the error.
C6_Original ==
  \A p \in Procs :
    LET r == req[p] IN
    C6_Case(r) => Count(r.log, "start") = 1 /\ Count(r.log, "create") = 0 /\ r.ret = "error"

\* C6 (amended): a failed start is not retried; the call goes on to create a
\* sandbox, once, and the caller gets an error only when that create fails too.
C6_StartFailureRecreates ==
  \A p \in Procs :
    LET r == req[p] IN
    C6_Case(r) =>
      /\ Count(r.log, "start") = 1
      /\ Count(r.log, "create") = 1
      /\ r.ret = "error" <=> Has(r.log, Op("create", "raise"))
      /\ r.ret = "ok" => r.sb # r.st.sandboxId /\ BoundTo(storage, r.sb)

C6_Witness ==
  \E p \in Procs :
    LET r == req[p] IN
    /\ C6_Case(r) /\ r.ret = "ok" /\ r.st.sandboxId = 1 /\ r.sb = 2 /\ BoundTo(storage, 2)

\* C7: a failed create is not retried, leaves the call as an error (a 500 for
\* /api/initialize) and the record's sandboxId and isInitialized as the call found them.
C7_CreateFailurePropagates ==
  \A p \in Procs :
    LET r == req[p] IN
    (Resolved(r) /\ Has(r.log, Op("create", "raise"))) =>
      /\ Count(r.log, "create") = 1
      /\ r.ret = "error"
      /\ r.pc = "done" /\ r.resp \in {"500", "healthCheckFailed"}
      /\ r.kind = "initialize" => r.resp = "500"
      /\ Count(r.log, "setSandboxState") = 0
      /\ storage.sandboxId = r.st.sandboxId
      /\ storage.isInitialized = r.st.isInitialized

C7_Witness ==
  \E p \in Procs :
    LET r == req[p] IN
    /\ Resolved(r) /\ r.kind = "initialize" /\ r.resp = "500"
    /\ r.log = <<Op("create", "raise"), Op("return", "throw")>>
    /\ ~storage.present

-----------------------------------------------------------------------------
(* What the bridge forwarded, read from its events *)

\* The events the log callback sent: structured events and raw text.
StreamEvents(b) ==
  SelectSeq(b.events, LAMBDA e : e.type \in {"claude_streaming", "claude_text", "data"} /\ ~IsError(e))

ErrorCount(b) == Cardinality({i \in DOMAIN b.events : IsError(b.events[i])})

\* The lines of everything the callback received so far, null bytes stripped.
ReceivedLines == Split(Strip(bridge.received))

\* The terminated ones.
CompleteLines == SubSeq(ReceivedLines, 1, Len(ReceivedLines) - 1)

\* C8 (as stated): once the subscription has completed, the events forwarded and the
\* text kept account for every non-blank line of the newline-split of the
\* concatenated chunks, the last line included.
C8_NoOutputLost ==
  bridge.sub = "completed" =>
    LET all == ProcessLines(bridge.variant, ReceivedLines)
    IN StreamEvents(bridge) = all.events /\ bridge.assistantContent = all.text

\* C9: after every chunk the buffer holds the unterminated tail of what was received,
\* and the events sent and the text kept are those of the terminated lines, in order,
\* each once: they depend on the output received, not on how it was cut into chunks,
\* and a line is forwarded only once its newline has arrived.
C9_ChunkingIndependent ==
  bridge.sub # "none" =>
    LET whole == ProcessLines(bridge.variant, CompleteLines)
    IN /\ bridge.buffer = ReceivedLines[Len(ReceivedLines)]
       /\ StreamEvents(bridge) = whole.events
       /\ bridge.assistantContent = whole.text

\* A line begun in one chunk and terminated by a later one was forwarded, as one event.
C9_Witness ==
  /\ bridge.joined
  /\ Len(ReceivedLines) = 2
  /\ ~IsBlank(ReceivedLines[1])
  /\ Len(StreamEvents(bridge)) = 1
  /\ bridge.buffer = <<>>

-----------------------------------------------------------------------------
(* The invocation and the conversation *)

\* The remote command of the invocation was issued.
CommandIssued(b) == b.sub # "none"

\* The invocation entered the bridge: the record was bound and, on /api/run-code,
\* the sandbox was resolved.
BridgeEntered(b) ==
  /\ b.pc \notin {"idle", "resolve"}
  /\ b.sandboxState.isInitialized /\ b.sandboxState.sandboxId # NoId
  /\ b.resp # "500"

\* The conversation the invocation found, and what it has appended since.
Found == bridge.sandboxState.messages

Appended == SubSeq(storage.messages, Len(Found) + 1, Len(storage.messages))

\* C11 (as stated): on a record whose conversation never held a message, the command
\* of the first message (the conversation then holds one user message) is issued
\* without the continue flag and the command of the second (it then holds two) with it.
C11_SecondContinues ==
  CommandIssued(bridge) =>
    /\ UserCount(storage.messages) = 1 => ~bridge.continueFlag
    /\ UserCount(storage.messages) = 2 => bridge.continueFlag

\* C12: an invocation that entered the bridge never shortens or rewrites the
\* conversation it found, and appends to it the user's message, once, followed by at
\* most one assistant message; when it is over exactly one user message has been
\* appended, whether it completed, timed out, or failed at the lookup, the session,
\* the command or the subscription.
C12_OneUserAtMostOneAssistant ==
  BridgeEntered(bridge) =>
    /\ Len(storage.messages) >= Len(Found)
    /\ SubSeq(storage.messages, 1, Len(Found)) = Found
    /\ Len(Appended) <= 2
    /\ Len(Appended) >= 1 => Appended[1].sender = "user"
    /\ Len(Appended) = 2 => Appended[2].sender = "assistant"
    /\ bridge.pc = "done" => Len(Appended) >= 1

\* The subscription failed after text had accumulated: the invocation is over with
\* the user's message and one assistant message appended.
C12_Witness ==
  /\ BridgeEntered(bridge)
  /\ bridge.pc = "done"
  /\ bridge.race = "failed"
  /\ Len(Appended) = 2
  /\ Appended[1].sender = "user"
  /\ Appended[2].sender = "assistant"

\* C13: once the bridge is past the append of the user's message (looking the sandbox
\* up, creating the session, issuing the command, streaming, or over after any of
\* these failed) the user's message is in the persisted conversation, right after
\* the messages the invocation found.
C13_UserMessageFirst ==
  (BridgeEntered(bridge) /\ bridge.pc # "addUser") =>
    /\ Len(Appended) >= 1
    /\ Appended[1] = UserMessage(now)

\* The command could not be started: the error went to the caller and the user's
\* message is the last of the conversation.
C13_Witness ==
  /\ BridgeEntered(bridge)
  /\ bridge.pc = "done"
  /\ ~CommandIssued(bridge)
  /\ \E i \in DOMAIN bridge.events :
       bridge.events[i] = ErrorEvent(bridge.variant, "executeSessionCommand")
  /\ Appended = <<UserMessage(now)>>

-----------------------------------------------------------------------------
(* Lines and their events *)

\* A raw-text event, and the line it carries.
IsRaw(e) == e.type = "claude_text" \/ e.value.model = "claude-fallback"

Carried(e) == IF e.type = "claude_text" THEN e.content ELSE e.value.content[1].text

\* The raw-text events sent for lines that are not JSON.
NonJsonEvents(b) ==
  SelectSeq(StreamEvents(b), LAMBDA e : IsRaw(e) /\ ~JSONParse(Carried(e)).ok)

\* piece occurs in text, contiguously.
Occurs(piece, text) ==
  \E i \in 1..(Len(text) - Len(piece) + 1) : SubSeq(text, i, i + Len(piece) - 1) = piece

\* The terminated lines received that are not JSON: all of them, and the non-blank ones.
NonJsonLines == SelectSeq(CompleteLines, LAMBDA l : ~JSONParse(l).ok)

RawLines == SelectSeq(CompleteLines, LAMBDA l : ~IsBlank(l) /\ ~JSONParse(l).ok)

\* C15 (as stated): every terminated line that does not parse as JSON, in order, was
\* forwarded as one raw-text event carrying it.
C15_Original ==
  NonJsonEvents(bridge) = [i \in 1..Len(NonJsonLines) |-> RawText(bridge.variant, NonJsonLines[i])]

\* C15: every terminated line that is not blank and does not parse as JSON was
\* forwarded, in order, as one raw-text event carrying the line (null bytes
\* stripped), and the line followed by a newline is in the accumulator; no error
\* event was sent and the stream went on to its completion.
C15_RawLinesForwarded ==
  bridge.sub # "none" =>
    /\ NonJsonEvents(bridge) = [i \in 1..Len(RawLines) |-> RawText(bridge.variant, RawLines[i])]
    /\ \A i \in 1..Len(RawLines) : Occurs(RawLines[i] \o <<NL>>, bridge.assistantContent)
    /\ ErrorCount(bridge) = 0
    /\ bridge.pc = "done" => bridge.sub = "completed" /\ bridge.out = <<>>

\* Two raw lines were received, the stream completed, both were forwarded and kept.
C15_Witness ==
  /\ Len(RawLines) = 2
  /\ Len(NonJsonEvents(bridge)) = 2
  /\ Occurs(RawLines[2] \o <<NL>>, bridge.assistantContent)
  /\ bridge.pc = "done"

\* C16: every step of the callback leaves the events already forwarded as they are
\* and appends to them the events of the lines the chunk has terminated, in the order
\* of the lines and each once.
C16_ArrivalOrder ==
  [][\A old \in {Split(Strip(bridge.received))}, new \in {Split(Strip(bridge'.received))} :
       \A terminated \in {SubSeq(new, Len(old), Len(new) - 1)} :
         StreamEvents(bridge') =
           StreamEvents(bridge) \o ProcessLines(bridge.variant, terminated).events]_vars

\* Two different non-blank lines arrived in more than one chunk; their events were
\* forwarded in the order of the lines.
C16_Witness ==
  /\ bridge.joined
  /\ Len(CompleteLines) = 2
  /\ ~IsBlank(CompleteLines[1]) /\ ~IsBlank(CompleteLines[2])
  /\ CompleteLines[1] # CompleteLines[2]
  /\ StreamEvents(bridge) =
       ProcessLine(bridge.variant, CompleteLines[1]).events
         \o ProcessLine(bridge.variant, CompleteLines[2]).events

\* Completion was signalled to the caller of an invocation that streamed.
Signalled(b) == b.pc = "done" /\ CommandIssued(b)

\* C17 (as stated): once completion has been signalled, nothing more is forwarded to
\* the caller of the invocation.
C17_NoEventAfterCompletion ==
  [][(Signalled(bridge) /\ Signalled(bridge')) => bridge'.events = bridge.events]_vars

-----------------------------------------------------------------------------
(* The operations of the record *)

\* The last call, and the one before it.

-----------------------------------------------------------------------------
(* The race of the log subscription against the timer, to its end *)

\* The timer fires when the caller has gone (the WebSocket is closed, the response
\* stream cancelled): the send of the error event in the catch of the race throws,
\* the send in the outer catch throws as well, and the invocation ends there.
TimeoutClientGone ==
  /\ bridge.timer = "armed"
  /\ bridge.pc = "streaming"
  /\ bridge' = [bridge EXCEPT !.timer = "fired", !.race = "timeout",
                              !.atRace = bridge.assistantContent, !.pc = "aborted"]
  /\ UNCHANGED <<storage, now, nextId, procs, req>>

InitLive ==
  /\ storage = addMessage(Bound1, UserMessage(1), 1)
  /\ now = 1
  /\ nextId = 2
  /\ procs = {}
  /\ req = [p \in Procs |-> Idle]
  /\ \E variant \in Variants, o \in Outputs(FlowLines, 2) :
       bridge = [NoInvocation EXCEPT
                   !.variant = variant, !.pc = "streaming", !.sandboxState = Bound1,
                   !.out = o, !.sub = "active", !.timer = "armed",
                   !.resp = IF variant = "sse" THEN "stream" ELSE "none",
                   !.events = IF variant = "ws"
                                THEN <<Event("user_message_received", <<"q">>, NoValue)>>
                                ELSE <<>>]

NextLive ==
  \/ Chunk
  \/ LogsEnd
  \/ LogsFail
  \/ Timeout
  \/ TimeoutClientGone
  \/ AddAssistant

\* The timer fires 30 s after it was set, and the storage answers.
SpecLive == InitLive /\ [][NextLive]_vars /\ WF_vars(Timeout) /\ WF_vars(AddAssistant)

-----------------------------------------------------------------------------
(* The streaming bridge with a /api/reset-session request in between *)

\* A /api/reset-session request on the bound record reaches its clearMessages while
\* an invocation of the bridge is at one of its awaits.
ResetDuringStream ==
  /\ bridge.pc \notin {"idle", "done"}
  /\ storage.isInitialized /\ storage.sandboxId # NoId
  /\ storage' = clearMessages(storage, now)
  /\ UNCHANGED <<now, nextId, procs, req, bridge>>

\* From the start of the log subscription, the user's message being stored.
NextStreamReset ==
  \/ Chunk
  \/ LogsEnd
  \/ LogsFail
  \/ Timeout
  \/ AddAssistant
  \/ ResetDuringStream

SpecStreamReset == InitLive /\ [][NextStreamReset]_vars

-----------------------------------------------------------------------------
(* The handlers of the worker on every record the program leaves in the storage *)

InitHandlers ==
  /\ storage \in Records
  /\ now = 1
  /\ nextId = 2
  /\ procs = {1}
  /\ req = [p \in Procs |-> Idle]
  /\ bridge = NoInvocation

SpecHandlers == InitHandlers /\ [][Next]_vars

-----------------------------------------------------------------------------
(* Two requests in flight at once *)

InitRace ==
  /\ storage = NoRecord
  /\ now = 1
  /\ nextId = 1
  /\ procs = Procs
  /\ req = [p \in Procs |-> Idle]
  /\ bridge = NoInvocation

\* /api/initialize is the handler that resolves from an unbound record: its steps,
\* interleaved at every await.
NextRace ==
  \E p \in Procs :
    \/ Initialize(p)
    \/ Create(p) \/ Bind(p)
    \/ Setup(p) \/ InitPreview(p) \/ InitSetUrl(p)
    \/ Finish(p)

SpecRace == InitRace /\ [][NextRace]_vars

-----------------------------------------------------------------------------
(* Store operations called by two callers at once *)

\* The message a caller hands to addMessage.
MessageOf(k, t) == IF k = 1 THEN UserMessage(t) ELSE AiMessage(t, 1, <<"h", "i">>)

\* What an operation puts, from the state its getSandboxState returned.
Apply(name, s, arg, t) ==
  CASE name = "setSandboxState" -> setSandboxState(s, arg, t)
    [] name = "setDevServerUrl" -> setDevServerUrl(s, PreviewUrl(arg), t)
    [] name = "addMessage" -> addMessage(s, MessageOf(arg, t), t)
    [] OTHER -> clearMessages(s, t)

\* Mutant: no input gate; a call is delivered while another operation waits for its
\* storage.
InputGate_open(p) == TRUE

\* The Durable Object's input gate: while an operation waits for this.ctx.storage
\* no other event is delivered to the object.
InputGate(p) == \A q \in procs \ {p} : req[q].pc # "got"

\* A caller calls setSandboxState(id), setDevServerUrl(url), addMessage(m) or
\* clearMessages(); the call waits for delivery to the object.
Invoke(p) ==
  /\ p \in procs
  /\ req[p].pc = "idle"
  /\ \E name \in {"setSandboxState", "setDevServerUrl", "addMessage", "clearMessages"} :
       \E arg \in 1..MaxSandboxes :
         /\ name = "clearMessages" => arg = 1
         /\ name = "addMessage" => arg \in 1..2
         /\ req' = [req EXCEPT ![p] =
              [Idle EXCEPT !.kind = name, !.pc = "pending", !.sb = arg,
                           !.ret = IF InputGate(p) THEN "direct" ELSE "deferred"]]
  /\ UNCHANGED <<storage, now, nextId, procs, bridge>>

\* The operation starts: its getSandboxState gets the record (and puts it back with
\* lastAccessedAt).
StorageGet(p) ==
  /\ req[p].pc = "pending"
  /\ InputGate(p)
  /\ req[p].kind = "addMessage" => Len(storage.messages) < MaxMessages
  /\ storage' = getSandboxState_put(storage, now)
  /\ req' = [req EXCEPT ![p] = [@ EXCEPT !.pc = "got", !.st = getSandboxState_ret(storage, now)]]
  /\ UNCHANGED <<now, nextId, procs, bridge>>

\* The operation changes the state it got and puts it.
StoragePut(p) ==
  /\ req[p].pc = "got"
  /\ storage' = Apply(req[p].kind, req[p].st, req[p].sb, now)
  /\ req' = [req EXCEPT ![p] = [@ EXCEPT !.pc = "done", !.st = NoRecord]]
  /\ UNCHANGED <<now, nextId, procs, bridge>>

InitAtomic ==
  /\ storage \in Records
  /\ now = 1
  /\ nextId = 2
  /\ procs = Procs
  /\ req = [p \in Procs |-> Idle]
  /\ bridge = NoInvocation

NextAtomic ==
  \E p \in Procs :
    \/ Invoke(p)
    \/ StorageGet(p)
    \/ StoragePut(p)
    \/ Finish(p)

SpecAtomic == InitAtomic /\ [][NextAtomic]_vars

-----------------------------------------------------------------------------
(* Claims *)

Call == req[1]

LastCalls(names) ==
  /\ Len(Call.log) >= Len(names)
  /\ \A i \in 1..Len(names) : Call.log[Len(Call.log) - Len(names) + i] = Op(names[i], "ok")

\* The binding and the preview address are those of s.
SameBinding(s) ==
  /\ storage.sandboxId = s.sandboxId
  /\ storage.isInitialized = s.isInitialized
  /\ storage.devServerUrl = s.devServerUrl

\* C18: after a clearMessages the conversation is empty and the sandbox id, the
\* bound flag and the preview address are what the call found; so after the second
\* of two calls in a row, which found the conversation already empty, they are
\* still what the first call left.
C18_ClearTwice ==
  /\ LastCalls(<<"clearMessages">>) => storage.messages = <<>> /\ SameBinding(Call.st)
  /\ LastCalls(<<"clearMessages", "clearMessages">>) => Call.st.messages = <<>>

\* clearMessages was called twice in a row on a bound record with a preview address.
C18_Witness ==
  /\ LastCalls(<<"clearMessages", "clearMessages">>)
  /\ storage.sandboxId # NoId /\ storage.isInitialized /\ storage.devServerUrl # NoUrl
  /\ storage.messages = <<>>

\* C19: after setSandboxState(id) the record holds the id and is bound, the preview
\* address and the conversation are those the call found, and createdAt is the one
\* of the record the call found if there was one, else the time of the call (which
\* the call also wrote as lastAccessedAt).
C19_BindPreserves ==
  LastCalls(<<"setSandboxState">>) =>
    /\ storage.present
    /\ storage.sandboxId = Call.sb
    /\ storage.isInitialized
    /\ storage.devServerUrl = Call.st.devServerUrl
    /\ storage.messages = Call.st.messages
    /\ storage.createdAt =
         IF Call.st.present THEN Call.st.createdAt ELSE storage.lastAccessedAt

\* A record with a preview address and a conversation, created earlier and bound to
\* another sandbox, was bound anew.
C19_Witness ==
  /\ LastCalls(<<"setSandboxState">>)
  /\ Call.st.present /\ Call.st.createdAt < now
  /\ Call.st.sandboxId \notin {NoId, Call.sb}
  /\ storage.sandboxId = Call.sb
  /\ storage.devServerUrl # NoUrl
  /\ storage.messages # <<>>
  /\ storage.createdAt = Call.st.createdAt

\* C20: after resetSandboxState the record is present and in the default unbound
\* shape, whatever the call found.
C20_ResetToDefault ==
  LastCalls(<<"resetSandboxState">>) =>
    /\ storage.present
    /\ storage.sandboxId = NoId
    /\ ~storage.isInitialized
    /\ storage.devServerUrl = NoUrl
    /\ storage.messages = <<>>

\* A bound record with a preview address and a conversation was reset.
C20_Witness ==
  /\ LastCalls(<<"resetSandboxState">>)
  /\ Call.st.sandboxId # NoId /\ Call.st.devServerUrl # NoUrl /\ Call.st.messages # <<>>
  /\ storage = DefaultState(now)

\* C21: whatever store operations were called, in whatever order, a record marked
\* bound names a sandbox.
C21_BoundImpliesId == storage.isInitialized => storage.sandboxId # NoId

\* A bound record was reset and bound again.
C21_Witness ==
  /\ LastCalls(<<"resetSandboxState", "setSandboxState">>)
  /\ Call.st = DefaultState(Call.st.createdAt)
  /\ storage.isInitialized /\ storage.sandboxId # NoId

IsPrefix(a, b) == Len(a) <= Len(b) /\ SubSeq(b, 1, Len(a)) = a

\* C22 (as claimed): every operation other than clearMessages leaves the messages
\* it found as a prefix of the conversation.
C22_Original ==
  [][Call'.kind # "clearMessages" => IsPrefix(storage.messages, storage'.messages)]_vars

\* C22 (amended): every operation other than clearMessages and resetSandboxState
\* leaves the messages it found, in their order, as a prefix of the conversation;
\* addMessage adds exactly one message at the end and the others add none.
C22_AppendOnly ==
  [][/\ Call'.kind \notin {"clearMessages", "resetSandboxState"}
        => IsPrefix(storage.messages, storage'.messages)
     /\ Len(storage'.messages) > Len(storage.messages)
        => Call'.kind = "addMessage" /\ Len(storage'.messages) = Len(storage.messages) + 1]_vars

\* A message was appended to a conversation of two, which are still its first two.
C22_Witness ==
  /\ LastCalls(<<"addMessage">>)
  /\ Len(Call.st.messages) = 2
  /\ Len(storage.messages) = 3
  /\ SubSeq(storage.messages, 1, 2) = Call.st.messages

\* C27: the ids of the messages of the conversation are pairwise distinct, also
\* when two of them were appended at the same clock value.
C27_DistinctIds ==
  \A i, j \in 1..Len(storage.messages) :
    i # j => storage.messages[i].id # storage.messages[j].id

\* C24: when a streaming request was answered with the retryable error and the
\* record was reset, the next streaming request is not refused: it goes on to
\* obtain a sandbox.
C24_NextRequestRecovers ==
  [][(/\ bridge.pc = "done" /\ bridge.resp = "500"
      /\ storage.present /\ ~storage.isInitialized
      /\ bridge' # bridge)
     => bridge'.pc # "done"]_vars

\* The resolve call of request r went the healthy way: the lookup found the sandbox
\* running and its probe succeeded.
Healthy(r) == Resolved(r) /\ FoundAs(r, {"STARTED"}) /\ Has(r.log, Op("health", "ok"))

\* C28: on the healthy running path the resolve call is the lookup, the probe and
\* the return of the looked-up sandbox: no start, no ensure, no create, and no write
\* of the record's id, bound flag, preview address or conversation.
C28_HealthyPathReadsOnly ==
  \A p \in Procs :
    LET r == req[p] IN
    Healthy(r) =>
      /\ \E state \in SandboxStatus :
           r.log = <<Op("findOne", state), Op("health", "ok"), Op("return", "ok")>>
      /\ r.ret = "ok" /\ r.sb = r.st.sandboxId
      /\ r.pc \in {"reread", "resetCmd"} => SameBinding(r.st) /\ storage.messages = r.st.messages

\* A reset-session request on a record with a conversation has resolved its sandbox
\* the healthy way.
C28_Witness ==
  \E p \in Procs :
    LET r == req[p] IN
    /\ Healthy(r) /\ r.pc = "resetCmd"
    /\ r.st.devServerUrl # NoUrl /\ Len(r.st.messages) = 2
    /\ storage.messages = r.st.messages

\* The case of C29: the lookup found the sandbox in a state that is none of started,
\* stopped and archived.
C29_Case(r) ==
  /\ Resolved(r)
  /\ \E i \in 1..Len(r.log) :
       /\ r.log[i][1] = "findOne"
       /\ r.log[i][2] # "raise"
       /\ ToUpperCase(r.log[i][2]) \notin {"STARTED", "STOPPED", "ARCHIVED"}

\* C29 (as claimed): such a call starts nothing, runs no ensure, creates one sandbox
\* and leaves the record bound to the new id.
C29_Original ==
  \A p \in Procs :
    LET r == req[p] IN
    C29_Case(r) =>
      /\ Count(r.log, "start") = 0 /\ Count(r.log, "ensure") = 0
      /\ Count(r.log, "create") = 1 /\ Has(r.log, Op("create", "ok"))
      /\ BoundTo(storage, r.sb) /\ r.sb # r.st.sandboxId

\* C29 (amended): such a call goes on as after a failed lookup: it starts nothing,
\* runs no ensure and issues exactly one create, directly after the lookup; when the
\* create succeeds the new sandbox is returned and the record is bound to its id;
\* when it fails the error is returned and the record keeps its id.
C29_UnexpectedStateRecreates ==
  \A p \in Procs :
    LET r == req[p] IN
    C29_Case(r) =>
      /\ Count(r.log, "start") = 0 /\ Count(r.log, "ensure") = 0
      /\ Count(r.log, "findOne") = 1 /\ Count(r.log, "create") = 1
      /\ r.log[1][1] = "findOne" /\ r.log[2][1] = "create"
      /\ Has(r.log, Op("create", "ok"))
           => r.ret = "ok" /\ BoundTo(storage, r.sb) /\ r.sb # r.st.sandboxId
      /\ Has(r.log, Op("create", "raise"))
           => r.ret = "error" /\ storage.sandboxId = r.st.sandboxId
                /\ storage.isInitialized = r.st.isInitialized

\* A sandbox found in the state "error" was replaced by a new one.
C29_Witness ==
  \E p \in Procs :
    LET r == req[p] IN
    /\ C29_Case(r) /\ r.st.sandboxId = 1
    /\ r.log = <<Op("findOne", "error"), Op("create", "ok"), Op("setSandboxState", "ok"),
                 Op("return", "ok")>>
    /\ BoundTo(storage, 2)

\* The commands of the run of ensureDevServerRunning called at entry i of the log.
RunAt(log, i) ==
  LET pm2 == {"pm2 describe", "pm2 jlist", "pm2 restart", "pm2 start"}
      last == CHOOSE j \in i..Len(log) :
                /\ \A k \in (i + 1)..j : log[k][1] \in pm2
                /\ j < Len(log) => log[j + 1][1] \notin pm2
  IN SubSeq(log, i + 1, last)

\* The runs of ensureDevServerRunning the requests have made.
EnsureRuns ==
  UNION {{RunAt(req[p].log, i) : i \in {k \in 1..Len(req[p].log) : req[p].log[k] = Op("ensure", "call")}}
         : p \in Procs}

NotOnline(run) == Has(run, Op("pm2 jlist", "stopped")) \/ Has(run, Op("pm2 jlist", "missing"))

\* C30 (as claimed): a run that finds the process online issues no restart and no
\* start; one that finds it existing but not online issues exactly one restart and
\* no start; one that finds it absent issues exactly one start and no restart.
C30_Original ==
  \A run \in EnsureRuns :
    /\ Has(run, Op("pm2 jlist", "online")) => Count(run, "pm2 restart") = 0 /\ Count(run, "pm2 start") = 0
    /\ NotOnline(run) => Count(run, "pm2 restart") = 1 /\ Count(run, "pm2 start") = 0
    /\ Has(run, Op("pm2 describe", "exit1")) => Count(run, "pm2 start") = 1 /\ Count(run, "pm2 restart") = 0

\* C30 (amended): as claimed, except that a restart which throws is followed by one
\* fresh start: a run that finds the process existing but not online issues exactly
\* one restart, and no start when the restart returns, exactly one when it throws.
C30_EnsureCommands ==
  \A run \in EnsureRuns :
    /\ Has(run, Op("pm2 jlist", "online")) => Count(run, "pm2 restart") = 0 /\ Count(run, "pm2 start") = 0
    /\ NotOnline(run) =>
         /\ Count(run, "pm2 restart") = 1
         /\ Has(run, Op("pm2 restart", "ok")) => Count(run, "pm2 start") = 0
         /\ Has(run, Op("pm2 restart", "raise")) => Count(run, "pm2 start") = 1
    /\ Has(run, Op("pm2 describe", "exit1")) => Count(run, "pm2 start") = 1 /\ Count(run, "pm2 restart") = 0

\* A run found no process and its start threw, another restarted a stopped process,
\* and none found the process online.
C30_Witness ==
  /\ <<Op("pm2 describe", "exit0"), Op("pm2 jlist", "stopped"), Op("pm2 restart", "ok")>> \in EnsureRuns
  /\ <<Op("pm2 describe", "exit1"), Op("pm2 start", "raise")>> \in EnsureRuns
  /\ <<Op("pm2 describe", "exit0"), Op("pm2 jlist", "online")>> \notin EnsureRuns

\* /api/reset-session has answered with success.
ResetDone(r) == r.kind = "reset" /\ r.pc = "done" /\ r.resp = "reset"

ReadUnbound(r) == r.kind = "initialize" /\ r.pc # "idle" /\ r.st.sandboxId = NoId /\ ~r.st.isInitialized

\* C25: there is no single-flight guard. Every request that read the record unbound
\* issues its own create, whatever another request in flight has done; when two
\* such requests both had their create succeed, two different sandboxes were
\* created. (The state in which both have issued their create is C25_Witness.)
C25_NoSingleFlight ==
  /\ \A p \in procs :
       ReadUnbound(req[p]) /\ Resolved(req[p]) => Count(req[p].log, "create") = 1
  /\ \A p, q \in procs :
       (/\ p # q /\ ReadUnbound(req[p]) /\ ReadUnbound(req[q])
        /\ Has(req[p].log, Op("create", "ok")) /\ Has(req[q].log, Op("create", "ok")))
       => /\ req[p].sb # req[q].sb
          /\ nextId > req[p].sb /\ nextId > req[q].sb

\* Two requests in flight both read the record unbound and both have created a
\* sandbox; the record is bound to the second one and the first is left over.
C25_Witness ==
  /\ \A p \in Procs : ReadUnbound(req[p]) /\ Has(req[p].log, Op("create", "ok"))
  /\ {req[p].sb : p \in Procs} = {1, 2}
  /\ BoundTo(storage, 2)

C31_FreshStartIsSaved ==
  \A run \in EnsureRuns :
    \A i \in 1..Len(run) :
      run[i] = Op("pm2 start", "ok") => \E j \in (i + 1)..Len(run) : run[j][1] = "pm2 save"

\* C32: no run of ensureDevServerRunning throws, whatever its commands do, and a call
\* of getOrCreateSandbox that ran it (and whose other remote calls all succeeded)
\* returns, without an error and without a create, the sandbox it found.
C32_EnsureNeverFails ==
  /\ \A run \in EnsureRuns : ~Has(run, Op("pm2 start", "raise"))
  /\ \A p \in Procs :
       LET r == req[p] IN
       (Resolved(r) /\ Count(r.log, "ensure") > 0 /\ ~Has(r.log, Op("getPreviewLink", "raise")))
         => r.ret = "ok" /\ r.sb = r.st.sandboxId /\ Count(r.log, "create") = 0

\* C39: the preview address of a bound record is the one of the sandbox the record
\* names.
C39_PreviewOfBoundSandbox ==
  (storage.isInitialized /\ storage.devServerUrl # NoUrl)
    => storage.devServerUrl = PreviewUrl(storage.sandboxId)

\* The id, the bound flag and the preview address of a record.
Binding(s) == <<s.sandboxId, s.isInitialized, s.devServerUrl>>

\* C34: getSandboxState leaves the id, the bound flag, the preview address and the
\* conversation as they are. On a stored record it writes lastAccessedAt and nothing
\* else and returns the record so written; on an empty storage it writes nothing and
\* returns the default record: no id, not bound, no address, no messages.
C34_ReadFrame ==
  [][(Call'.kind = "getSandboxState" /\ req' # req) =>
       \A ret \in {getSandboxState_ret(storage, now)} :
         /\ Binding(storage') = Binding(storage) /\ storage'.messages = storage.messages
         /\ storage.present =>
              storage' = [storage EXCEPT !.lastAccessedAt = now] /\ ret = storage'
         /\ ~storage.present =>
              /\ storage' = storage
              /\ ret.sandboxId = NoId /\ ~ret.isInitialized
              /\ ret.devServerUrl = NoUrl /\ ret.messages = <<>>]_vars

\* A bound record with an address and a conversation was read at a later time than
\* it was written.
C34_Witness ==
  /\ LastCalls(<<"getSandboxState">>)
  /\ Call.st.sandboxId # NoId /\ Call.st.devServerUrl # NoUrl /\ Len(Call.st.messages) = 2
  /\ Call.st.lastAccessedAt < storage.lastAccessedAt
  /\ storage = [Call.st EXCEPT !.lastAccessedAt = now]

\* The terminated, non-blank lines received that parse as JSON.
JsonLines == SelectSeq(CompleteLines, LAMBDA l : ~IsBlank(l) /\ JSONParse(l).ok)

RECURSIVE Accumulated(_)
\* What the accumulator is to hold after the lines: the text of the text blocks of
\* the assistant events, and the raw lines with their newline.
Accumulated(lines) ==
  IF lines = <<>> THEN <<>>
  ELSE LET l == Head(lines)
           v == JSONParse(l).value
       IN (CASE IsBlank(l) -> <<>>
             [] ~JSONParse(l).ok -> l \o <<NL>>
             [] v.type = "assistant" -> TextOf(v.content)
             [] OTHER -> <<>>) \o Accumulated(Tail(lines))

\* C33: while the stream is open, the events forwarded, apart from the raw-text
\* events of the lines that are not JSON, are one event for every terminated line
\* that parses as JSON, in order, carrying the parsed value; and the accumulator
\* holds, for the JSON lines, the text of the text blocks of the assistant events
\* and nothing for any other value.
C33_JsonLinesForwarded ==
  bridge.pc = "streaming" =>
    /\ SelectSeq(StreamEvents(bridge), LAMBDA e : ~(IsRaw(e) /\ ~JSONParse(Carried(e)).ok))
         = [i \in 1..Len(JsonLines) |-> Structured(bridge.variant, JSONParse(JsonLines[i]).value)]
    /\ bridge.assistantContent = Accumulated(CompleteLines)

\* The invocation found the record unbound and has ended.
Rejected(b) ==
  b.pc = "done" /\ ~(b.sandboxState.isInitialized /\ b.sandboxState.sandboxId # NoId)

\* C36: a streaming request that finds the record unbound ends in the step that read
\* the record: the caller gets the error (an error event on the WebSocket, 400 on
\* /api/run-code) and nothing else, no message is appended, the id, the bound flag
\* and the address stay as they are, no sandbox is created and no command issued.
C36_UnboundRejected ==
  [][(Rejected(bridge') /\ bridge' # bridge) =>
       /\ bridge.pc \in {"idle", "done"}
       /\ IF bridge'.variant = "ws"
            THEN bridge'.events = <<ErrorEvent("ws", "No active sandbox found")>> /\ bridge'.resp = "none"
            ELSE bridge'.events = <<>> /\ bridge'.resp = "400"
       /\ storage'.messages = storage.messages
       /\ Binding(storage') = Binding(storage)
       /\ nextId' = nextId
       /\ ~CommandIssued(bridge') /\ bridge'.received = <<>>]_vars

\* A request on /api/run-code was refused on the record an earlier failure had reset.
C36_Witness ==
  /\ Rejected(bridge) /\ bridge.variant = "sse" /\ bridge.resp = "400"
  /\ storage.present /\ storage.messages = <<>>

\* C35: an invocation that has started the log subscription eventually signals
\* completion, having stored the assistant's message if it accumulated any, whether
\* the subscription completes, fails or stays open until the timer fires, and
\* whether or not the caller is still there.
C35_AlwaysFinalizes ==
  (bridge.pc = "streaming") ~>
    (/\ Signalled(bridge)
     /\ Trim(bridge.atRace) # <<>> =>
          \E i \in 1..Len(storage.messages) :
            storage.messages[i].sender = "assistant" /\ storage.messages[i].content = Trim(bridge.atRace))

\* The assistant messages the invocation has appended.
AssistantAppended == SelectSeq(Appended, LAMBDA m : m.sender = "assistant")

\* C37: when the log subscription completed before the timer fired, the caller got
\* no error event, also after the timer has fired, and the invocation finalized
\* once: at most one assistant message appended and at most one completion signal,
\* and exactly that once the invocation has ended.
C37_CompletedFirst ==
  bridge.race = "completed" =>
    /\ ErrorCount(bridge) = 0
    /\ Len(AssistantAppended) <= 1
    /\ Cardinality({i \in DOMAIN bridge.events : bridge.events[i].type = "claude_complete"})
         = IF bridge.pc = "done" /\ bridge.variant = "ws" THEN 1 ELSE 0
    /\ bridge.closed = (bridge.pc = "done" /\ bridge.variant = "sse")
    /\ bridge.pc = "done" =>
         Len(AssistantAppended) = IF Trim(bridge.atRace) # <<>> THEN 1 ELSE 0

\* The subscription completed, the invocation ended with its assistant message
\* stored, and the timer fired afterwards.
C37_Witness ==
  /\ bridge.race = "completed" /\ bridge.pc = "done" /\ bridge.timer = "fired"
  /\ Len(AssistantAppended) = 1
  /\ ErrorCount(bridge) = 0

\* C38: every assistant message of the conversation comes after a user message.
C38_AssistantAfterUser ==
  \A i \in 1..Len(storage.messages) :
    storage.messages[i].sender = "assistant"
      => \E j \in 1..(i - 1) : storage.messages[j].sender = "user"

\* Request r created a sandbox and its resolve call has returned.
CreatedAndReturned(r) == ReadUnbound(r) /\ Has(r.log, Op("create", "ok")) /\ Resolved(r)

\* C40: every bind leaves the record bound to the sandbox the binding request
\* created, so the record names the one bound last; and once two concurrent requests
\* that both created a sandbox have both returned, each has returned the sandbox it
\* created itself, the two are different, and the record is bound to one of them
\* and so does not name the other.
C40_LastBindWins ==
  /\ [][\A p \in procs :
         (req[p].pc = "bind" /\ req'[p].pc # "bind") => BoundTo(storage', req[p].sb)]_vars
  /\ [](\A p, q \in procs :
         (p # q /\ CreatedAndReturned(req[p]) /\ CreatedAndReturned(req[q])) =>
           /\ req[p].ret = "ok" /\ req[q].ret = "ok"
           /\ req[p].sb # req[q].sb
           /\ storage.isInitialized
           /\ storage.sandboxId \in {req[p].sb, req[q].sb})

\* Both requests have returned the sandbox they created; the record names the
\* second sandbox and the first is named nowhere.
C40_Witness ==
  /\ \A p \in Procs : CreatedAndReturned(req[p])
  /\ {req[p].sb : p \in Procs} = {1, 2}
  /\ BoundTo(storage, 2)

====
